---- MODULE Spec2Model ----
(***************************************************************************)
(* A model of the rustle transfer engine (src/download_utils/downloader.rs *)
(* and io.rs): one RustleDownloader job, the origin server it talks to,    *)
(* the download() orchestrator, its part fetcher tasks and the callers of  *)
(* pause() and resume().                                                   *)
(*                                                                         *)
(* Option<T> is modelled as a sequence of length at most one: <<>> is None *)
(* and <<x>> is Some(x).  A byte string is a sequence of naturals; the     *)
(* resource served by the origin holds byte value i at offset i, so that a *)
(* dropped, duplicated or reordered byte is visible in the output.         *)
(*                                                                         *)
(* Each critical section of the job mutex is one step.  The progress bar   *)
(* and the download_speed field are display only and are left out.  The    *)
(* setters and init() run before download() begins, and one execution of   *)
(* download() is followed per job; pause() and resume() may be called at   *)
(* any time by any holder of the handle.  init() keeps its guard across    *)
(* the probe request, so it is two steps with the mutex held in between.   *)
(* A failed init() changes nothing but its return value: Spec leaves the   *)
(* failing probes to SpecProbe, which follows a job up to download().      *)
(* SpecParse follows the same phase with every string and response the    *)
(* parsing of set_url() and init() may meet, SpecSizes the planning of     *)
(* download() for the file of the testing server, SpecReport a job with    *)
(* the GUI's update_download() beside it, and SpecFair is Spec under fair  *)
(* scheduling of the fetchers' polls.  SpecGui puts the job behind a row   *)
(* of the GUI and drives it by the row's buttons.                          *)
(***************************************************************************)
EXTENDS Integers, Sequences, FiniteSets, TLC

\* Bounds of the model.
MaxLen == 5
MaxPar == 3
MaxChunk == 2
MaxFaults == 1
MaxFairPar == 2

\* The size of the file the testing server serves (dd bs=64M count=1) and the
\* parallelism the GUI gives every job.
TestFileBytes == 67108864
GuiParallel == 4

VARIABLES
    \* RustleDownloaderInner
    url, out_dir, max_parallel_connections, get_headers_info,
    progress_vec, download_status,
    \* the job mutex (its holder while a call awaits with the guard alive) and
    \* the values the last init() and the last set_url() returned, and the
    \* response the last init() read
    lock, init_result, set_url_result, probe_response,
    \* RustleGUI::update_download, the reporting reader: its position and the
    \* two values it has read
    rd_pc, rd_progress, rd_status,
    \* the origin server: resource length, and whether it honours Range
    res_len, srv_ranges,
    \* download(): position, locals, return value
    dl_pc, num_parts, inc, part, full_content, dl_result,
    \* one part fetcher task per spawned part
    task_pc, task_range, task_body, task_chunk, task_buffer, task_result,
    \* the file system under out_dir
    file, file_writes,
    \* history: bytes handed to each fetcher by the transport, order in which
    \* the fetcher tasks terminated, the fetchers that have waited in the pause
    \* loop, transport and io faults injected so far
    delivered, completed, waited, faults,
    \* RustleGUI: the row of the job in the downloads map, the counter that
    \* numbers the rows, the start_download() commands performed so far, the
    \* update_download() commands in flight, the pause_download() and
    \* resume_download() commands in flight, their callbacks not yet
    \* handled, and (history) whether the row was removed while a download()
    \* was in flight
    downloads, downloads_counter, start_cmds, polls, commands, messages, cancelled_in_flight

cfgVars == <<url, out_dir, max_parallel_connections, get_headers_info>>
envVars == <<res_len, srv_ranges>>
apiVars == <<lock, init_result, set_url_result, probe_response>>
reportVars == <<rd_pc, rd_progress, rd_status>>
guiVars ==
    <<downloads, downloads_counter, start_cmds, polls, commands, messages,
      cancelled_in_flight>>
dlVars == <<dl_pc, num_parts, inc, part, full_content, dl_result>>
taskVars == <<task_pc, task_range, task_body, task_chunk, task_buffer, task_result>>
fsVars == <<file, file_writes>>
histVars == <<delivered, completed, waited, faults>>
vars ==
    <<cfgVars, envVars, guiVars, apiVars, reportVars, dlVars, taskVars, fsVars, histVars,
      progress_vec,
      download_status>>

None == <<>>
Some(x) == <<x>>
IsSome(o) == o # <<>>
Unwrap(o) == o[1]
UnwrapOr(o, d) == IF o = <<>> THEN d ELSE o[1]

SupportPartialRequest == {"Yes", "No", "Unknown"}
DownloadStatus == {"Idle", "Downloading", "Paused", "Done", "Error"}

Min(a, b) == IF a < b THEN a ELSE b

\* The bytes at offsets lo..hi (inclusive) of the resource.
Slice(lo, hi) == [i \in 1..(hi - lo + 1) |-> lo + i - 1]

Resource == Slice(0, res_len - 1)

Parts == 0..(num_parts - 1)


Ok(b) == [ok |-> TRUE, bytes |-> b, err |-> ""]
Err(e) == [ok |-> FALSE, bytes |-> <<>>, err |-> e]

(***************************************************************************)
(* Text.  A string is a sequence of one-character strings, so that the     *)
(* parsing the code does on URLs and header values can be followed         *)
(* character by character.                                                 *)
(***************************************************************************)
DigitChars == <<"0", "1", "2", "3", "4", "5", "6", "7", "8", "9">>

Letters == {"a", "b", "c", "d", "e", "f", "h", "i", "l", "m", "n", "o", "p", "r", "s", "t", "y"}

DigitValue(c) == (CHOOSE d \in 1..10 : DigitChars[d] = c) - 1

\* The decimal digits of n, as the server writes a length in a header.
RECURSIVE Decimal(_)
Decimal(n) ==
    IF n < 10 THEN <<DigitChars[n + 1]>>
    ELSE Append(Decimal(n \div 10), DigitChars[(n % 10) + 1])

RECURSIVE DecimalValue(_)
DecimalValue(s) ==
    IF s = <<>> THEN 0
    ELSE 10 * DecimalValue(SubSeq(s, 1, Len(s) - 1)) + DigitValue(s[Len(s)])

\* str::parse::<u64>(): an optional + sign and one decimal digit or more;
\* anything else is an error (None).
ParseU64(s) ==
    LET digits == IF s # <<>> /\ s[1] = "+" THEN Tail(s) ELSE s
    IN  IF digits = <<>> \/ \E i \in 1..Len(digits) : \A d \in 1..10 : DigitChars[d] # digits[i]
        THEN None
        ELSE Some(DecimalValue(digits))

\* str::starts_with
StartsWith(s, pre) == Len(s) >= Len(pre) /\ SubSeq(s, 1, Len(pre)) = pre

\* str::contains: pat occurs in s as a substring.
Contains(s, pat) ==
    \E i \in 1..(Len(s) - Len(pat) + 1) : SubSeq(s, i, i + Len(pat) - 1) = pat

\* The position of the first c in s, 0 when there is none.
IndexOf(s, c) ==
    IF \E i \in 1..Len(s) : s[i] = c
    THEN CHOOSE i \in 1..Len(s) : s[i] = c /\ \A j \in 1..(i - 1) : s[j] # c
    ELSE 0

\* str::split(c), collected: the pieces of s between the occurrences of c.
RECURSIVE Split(_, _)
Split(s, c) ==
    LET i == IndexOf(s, c)
    IN  IF i = 0 THEN <<s>>
        ELSE <<SubSeq(s, 1, i - 1)>> \o Split(SubSeq(s, i + 1, Len(s)), c)

\* str::trim_matches(c): every leading and every trailing c is removed.
RECURSIVE TrimMatches(_, _)
TrimMatches(s, c) ==
    IF s # <<>> /\ s[1] = c THEN TrimMatches(Tail(s), c)
    ELSE IF s # <<>> /\ s[Len(s)] = c THEN TrimMatches(SubSeq(s, 1, Len(s) - 1), c)
    ELSE s

\* str::trim, for the one white space character header values carry.
Trim(s) == TrimMatches(s, " ")

Last(q) == q[Len(q)]

\* Url::from_str, as far as the job uses its result: the scheme is the letters
\* before the first colon (a string without one is a relative URL, an error);
\* after "//" come the host, an error when empty, and the path, whose
\* segments the slashes separate (an empty path is the single empty segment);
\* a URL without "//" cannot be a base and has no path segments.
ParseUrl(s) ==
    LET i == IndexOf(s, ":")
    IN  IF i <= 1 \/ \E j \in 1..(i - 1) : s[j] \notin Letters THEN None
        ELSE LET scheme == SubSeq(s, 1, i - 1)
                 rest == SubSeq(s, i + 1, Len(s))
             IN  IF StartsWith(rest, <<"/", "/">>)
                 THEN LET after == SubSeq(rest, 3, Len(rest))
                          k == IndexOf(after, "/")
                          host == IF k = 0 THEN after ELSE SubSeq(after, 1, k - 1)
                          path == IF k = 0 THEN <<>> ELSE SubSeq(after, k + 1, Len(after))
                      IN  IF host = <<>> THEN None
                          ELSE Some([scheme |-> scheme, host |-> host,
                                     path_segments |-> Some(Split(path, "/"))])
                 ELSE Some([scheme |-> scheme, host |-> <<>>, path_segments |-> None])

Http == <<"h", "t", "t", "p">>

\* The strings handed to set_url: the origin's address, an address whose path
\* ends with a slash, a URL that cannot be a base, a relative reference and
\* the empty string.
UrlFile == Http \o <<":", "/", "/", "o", "/", "f">>
UrlDir == Http \o <<":", "/", "/", "o", "/", "d", "/">>
UrlData == <<"d", "a", "t", "a", ":", "f">>
UrlRelative == <<"o", "/", "f">>
UrlEmpty == <<>>

OriginUrls == {UrlFile}
UrlInputs == {UrlFile, UrlDir, UrlData, UrlRelative, UrlEmpty}

Bytes == <<"b", "y", "t", "e", "s">>
NoRanges == <<"n", "o", "n", "e">>
FilenameEq == <<"f", "i", "l", "e", "n", "a", "m", "e", "=">>
DefaultFileName == <<"d", "o", "w", "n", "l", "o", "a", "d", "_", "f", "i", "l", "e">>

\* The Content-Disposition header a server writes for the disposition d: the
\* type, and the file name, when it gives one, as a filename= parameter
\* between quote characters.
RenderDisposition(d) ==
    IF d.filename = None THEN d.type
    ELSE d.type \o <<";", " ">> \o FilenameEq \o d.quote \o Unwrap(d.filename) \o d.quote

\* A probe response: the headers extract_header_info reads, with the length
\* and the disposition the server rendered them from.
Response(length, cl, ar, d) ==
    [length |-> length, content_length |-> cl, accept_ranges |-> ar, disposition |-> d,
     content_disposition |-> IF d = None THEN None ELSE Some(RenderDisposition(Unwrap(d)))]

Attachment == <<"a", "t", "t", "a", "c", "h", "m", "e", "n", "t">>
Inline == <<"i", "n", "l", "i", "n", "e">>

Dispositions ==
    {[type |-> Attachment, filename |-> Some(<<"r", ".", "p">>), quote |-> <<"\"">>],
     [type |-> Inline, filename |-> Some(<<"r", ".", "p">>), quote |-> <<"'">>],
     [type |-> Attachment, filename |-> Some(<<"r", ".", "p">>), quote |-> <<>>],
     [type |-> Attachment, filename |-> Some(<<"a", "=", "b">>), quote |-> <<"\"">>],
     [type |-> Attachment, filename |-> None, quote |-> <<>>]}

\* The responses of the origin that serves the resource: Content-Length is
\* the resource's length or is left out, Accept-Ranges is bytes, none or is
\* left out, and there is no Content-Disposition.
OriginResponses ==
    {Response(l, IF l = None THEN None ELSE Some(Decimal(Unwrap(l))), ar, None) :
        l \in {None, Some(res_len)}, ar \in {None, Some(Bytes), Some(NoRanges)}}

\* The responses a probe may meet: those of the origin, the same with each
\* Content-Disposition, and one whose Content-Length is no number.
ProbeResponses ==
    OriginResponses
      \cup {Response(Some(res_len), Some(Decimal(res_len)), Some(Bytes), Some(d)) :
              d \in Dispositions}
      \cup {Response(None, Some(<<"x">>), None, None)}

\* The file name extract_header_info takes from a Content-Disposition value:
\* the piece between semicolons that starts with filename=, cut at its equals
\* signs, the second piece stripped of double then single quotes.
FileNameParam(cd) ==
    LET pieces == Split(cd, ";")
        found == {i \in 1..Len(pieces) : StartsWith(Trim(pieces[i]), FilenameEq)}
    IN  IF found = {} THEN None
        ELSE LET piece == pieces[CHOOSE i \in found : \A j \in found : i <= j]
             IN  Some(TrimMatches(TrimMatches(Split(Trim(piece), "=")[2], "\""), "'"))

\* ResponseHeaderInfo (the content type is display only and left out).
HeaderInfo(sp, cl, fn) ==
    [support_partial |-> sp, content_length |-> cl, file_name |-> fn]

\* extract_header_info as it would be if a response without Accept-Ranges
\* were taken as a refusal of ranges, and one without Content-Length as empty.
extract_header_info_strict(h, u) ==
    IF IsSome(h.content_length) /\ ParseU64(Unwrap(h.content_length)) = None
    THEN [ok |-> FALSE, info |-> None, err |-> "Content-Length isn't a valid number"]
    ELSE IF IsSome(h.content_disposition) /\ FileNameParam(Unwrap(h.content_disposition)) = None
    THEN [ok |-> FALSE, info |-> None,
          err |-> "Filename not found in content-disposition header."]
    ELSE [ok |-> TRUE, err |-> "",
          info |-> Some(HeaderInfo(
              IF h.accept_ranges # None /\ Contains(Unwrap(h.accept_ranges), Bytes)
              THEN "Yes" ELSE "No",
              IF h.content_length = None THEN Some(0) ELSE ParseU64(Unwrap(h.content_length)),
              IF IsSome(h.content_disposition)
              THEN FileNameParam(Unwrap(h.content_disposition))
              ELSE IF IsSome(u.path_segments) THEN Some(Last(Unwrap(u.path_segments)))
              ELSE Some(DefaultFileName)))]

\* extract_header_info as it would be without its last branch: a response
\* without Content-Disposition keeps the file name of the default info, None.
extract_header_info_no_fallback(h, u) ==
    IF IsSome(h.content_length) /\ ParseU64(Unwrap(h.content_length)) = None
    THEN [ok |-> FALSE, info |-> None, err |-> "Content-Length isn't a valid number"]
    ELSE IF IsSome(h.content_disposition) /\ FileNameParam(Unwrap(h.content_disposition)) = None
    THEN [ok |-> FALSE, info |-> None,
          err |-> "Filename not found in content-disposition header."]
    ELSE [ok |-> TRUE, err |-> "",
          info |-> Some(HeaderInfo(
              IF h.accept_ranges = None THEN "Unknown"
              ELSE IF Contains(Unwrap(h.accept_ranges), Bytes) THEN "Yes" ELSE "No",
              IF h.content_length = None THEN None ELSE ParseU64(Unwrap(h.content_length)),
              IF IsSome(h.content_disposition)
              THEN FileNameParam(Unwrap(h.content_disposition))
              ELSE None))]

\* extract_header_info(response), response.url() being u: the header info, or
\* the error of the first header that cannot be read.
extract_header_info(h, u) ==
    IF IsSome(h.content_length) /\ ParseU64(Unwrap(h.content_length)) = None
    THEN [ok |-> FALSE, info |-> None, err |-> "Content-Length isn't a valid number"]
    ELSE IF IsSome(h.content_disposition) /\ FileNameParam(Unwrap(h.content_disposition)) = None
    THEN [ok |-> FALSE, info |-> None,
          err |-> "Filename not found in content-disposition header."]
    ELSE [ok |-> TRUE, err |-> "",
          info |-> Some(HeaderInfo(
              IF h.accept_ranges = None THEN "Unknown"
              ELSE IF Contains(Unwrap(h.accept_ranges), Bytes) THEN "Yes" ELSE "No",
              IF h.content_length = None THEN None ELSE ParseU64(Unwrap(h.content_length)),
              IF IsSome(h.content_disposition)
              THEN FileNameParam(Unwrap(h.content_disposition))
              ELSE IF IsSome(u.path_segments) THEN Some(Last(Unwrap(u.path_segments)))
              ELSE Some(DefaultFileName)))]

\* RustleDownloader::new(max_parallel_connections): every Option is None, the
\* progress vector is empty and the status is Idle.
NewJob ==
    /\ url = None
    /\ out_dir = None
    /\ get_headers_info = None
    /\ progress_vec = <<>>
    /\ download_status = "Idle"
    /\ lock = None
    /\ init_result = None
    /\ set_url_result = None
    /\ probe_response = None
    /\ rd_pc = "idle"
    /\ rd_progress = <<>>
    /\ rd_status = "Idle"
    /\ dl_pc = "idle"
    /\ num_parts = 0
    /\ inc = 0
    /\ part = 0
    /\ full_content = <<>>
    /\ dl_result = None
    /\ task_pc = <<>>
    /\ task_range = <<>>
    /\ task_body = <<>>
    /\ task_chunk = <<>>
    /\ task_buffer = <<>>
    /\ task_result = <<>>
    /\ file = None
    /\ file_writes = 0
    /\ delivered = <<>>
    /\ completed = <<>>
    /\ waited = {}
    /\ faults = 0
    /\ downloads = None
    /\ downloads_counter = 0
    /\ start_cmds = 0
    /\ polls = <<>>
    /\ commands = [pause |-> 0, resume |-> 0]
    /\ messages = [pause |-> 0, resume |-> 0]
    /\ cancelled_in_flight = FALSE

\* A new job of any parallelism a u8 of the bound holds, and an origin with a
\* resource of one byte or more that honours Range or does not.
Init ==
    /\ NewJob
    /\ max_parallel_connections \in 0..MaxPar
    /\ res_len \in 1..MaxLen
    /\ srv_ranges \in BOOLEAN

\* set_url as it would be if the string were stored before it is validated:
\* a string that does not parse clears the stored URL.
set_url_unchecked(s) ==
    /\ dl_pc = "idle"
    /\ lock = None
    /\ url' = ParseUrl(s)
    /\ set_url_result' = Some(IF ParseUrl(s) = None THEN Err("invalid url") ELSE Ok(<<>>))
    /\ UNCHANGED <<lock, init_result, probe_response, out_dir, max_parallel_connections,
                   get_headers_info, envVars, guiVars, reportVars, dlVars, taskVars, fsVars,
                   histVars, progress_vec, download_status>>

\* set_url(s): ValidUrl::new(s)? returns the parse error before the mutex is
\* touched; a string that parses is stored under the mutex.
set_url_with(s) ==
    /\ dl_pc = "idle"
    /\ IF ParseUrl(s) = None
       THEN /\ set_url_result' = Some(Err("invalid url"))
            /\ UNCHANGED url
       ELSE /\ lock = None
            /\ url' = ParseUrl(s)
            /\ set_url_result' = Some(Ok(<<>>))
    /\ UNCHANGED <<lock, init_result, probe_response, out_dir, max_parallel_connections,
                   get_headers_info, envVars, guiVars, reportVars, dlVars, taskVars, fsVars,
                   histVars, progress_vec, download_status>>

\* set_url with the address of the origin.
set_url == \E s \in OriginUrls : set_url_with(s)

set_out_dir ==
    /\ dl_pc = "idle"
    /\ lock = None
    /\ out_dir' = Some("dir")
    /\ UNCHANGED <<url, max_parallel_connections, get_headers_info, envVars, guiVars,
                   reportVars, apiVars, dlVars, taskVars, fsVars, histVars, progress_vec,
                   download_status>>

\* init(), first half: the job mutex is locked, url and out_dir are asserted
\* and the probe request is sent; the guard stays alive while the response is
\* awaited.
init_send ==
    /\ dl_pc = "idle"
    /\ lock = None
    /\ IsSome(url) /\ IsSome(out_dir)
    /\ lock' = Some("init")
    /\ UNCHANGED <<init_result, set_url_result, probe_response, cfgVars, envVars, guiVars,
                   reportVars, dlVars, taskVars, fsVars, histVars, progress_vec,
                   download_status>>

\* init(), second half, the probe is answered with h and every header reads:
\* the header info is stored, the guard dropped and Ok(true) returned.  Only
\* an http URL is ever answered.
init_response(h) ==
    /\ lock = Some("init")
    /\ Unwrap(url).scheme = Http
    /\ extract_header_info(h, Unwrap(url)).ok
    /\ get_headers_info' = extract_header_info(h, Unwrap(url)).info
    /\ probe_response' = Some(h)
    /\ init_result' = Some(Ok(<<>>))
    /\ lock' = None
    /\ UNCHANGED <<set_url_result, url, out_dir, max_parallel_connections, envVars, guiVars,
                   reportVars, dlVars, taskVars, fsVars, histVars, progress_vec,
                   download_status>>

\* init(), second half, answered by the origin.
init == \E h \in OriginResponses : init_response(h)

\* The ways a probe fails: the request (send error or timeout), a
\* Content-Length that is no number, a Content-Disposition without filename=.
ProbeFailures ==
    {"error sending request",
     "Content-Length isn't a valid number",
     "Filename not found in content-disposition header."}

\* init(), second half, the probe fails: the ? operator returns Err(e) before
\* get_headers_info is assigned; the guard is dropped.  The request itself may
\* fail for any URL, and then no response is read; a header fails for a
\* response that carries it.
init_fails(e) ==
    /\ lock = Some("init")
    /\ \/ /\ e = "error sending request"
          /\ probe_response' = None
       \/ /\ Unwrap(url).scheme = Http
          /\ \E h \in ProbeResponses :
                /\ ~extract_header_info(h, Unwrap(url)).ok
                /\ extract_header_info(h, Unwrap(url)).err = e
                /\ probe_response' = Some(h)
    /\ init_result' = Some(Err(e))
    /\ lock' = None
    /\ UNCHANGED <<set_url_result, cfgVars, envVars, guiVars, reportVars, dlVars, taskVars,
                   fsVars, histVars, progress_vec, download_status>>

\* pause(): the status is overwritten with Paused.
PauseStatus(st) == "Paused"

\* resume(): the status is overwritten with Downloading.
ResumeStatus(st) == "Downloading"

pause ==
    /\ lock = None
    /\ download_status' = PauseStatus(download_status)
    /\ UNCHANGED <<cfgVars, envVars, guiVars, reportVars, apiVars, dlVars, taskVars, fsVars,
                   histVars, progress_vec>>

resume ==
    /\ lock = None
    /\ download_status' = ResumeStatus(download_status)
    /\ UNCHANGED <<cfgVars, envVars, guiVars, reportVars, apiVars, dlVars, taskVars, fsVars,
                   histVars, progress_vec>>


\* The number of parts download() plans: one unless the probe said ranges are
\* supported and gave a content length.
NumParts(info, mpc) ==
    IF info.support_partial # "Yes" \/ info.content_length = None THEN 1 ELSE mpc

\* The first byte requested for part p.
StartByte(p, step) == IF p # 0 THEN p * step + 1 ELSE p * step

\* The last byte requested for part p of n.
EndByte(p, step, n) ==
    IF p = n - 1 /\ n % 2 = 0 THEN (p + 1) * step + 1 ELSE (p + 1) * step

\* vec![PartDownloadInfo { downloaded_bytes: 0, .. }; num_parts]
ZeroProgress(n) == [i \in 0..(n - 1) |-> 0]

\* DownloadBegin as it would be if a missing header info were replaced by
\* ResponseHeaderInfo::default() instead of ending the call.
DownloadBeginDefaultInfo ==
    /\ dl_pc = "idle"
    /\ lock = None
    /\ IF url = None \/ out_dir = None
       THEN /\ dl_pc' = "panicked"
            /\ UNCHANGED <<num_parts, inc, dl_result>>
       ELSE LET info == IF get_headers_info = None THEN HeaderInfo("Unknown", None, None)
                        ELSE Unwrap(get_headers_info)
                n == NumParts(info, max_parallel_connections)
            IN  IF n = 0
                THEN /\ dl_pc' = "panicked"
                     /\ UNCHANGED <<num_parts, inc, dl_result>>
                ELSE /\ num_parts' = n
                     /\ inc' = UnwrapOr(info.content_length, 0) \div n
                     /\ dl_pc' = "init_progress"
                     /\ UNCHANGED dl_result
    /\ UNCHANGED <<part, full_content, cfgVars, envVars, guiVars, reportVars, apiVars,
                   taskVars, fsVars, histVars, progress_vec, download_status>>

\* download(), up to the computation of num_parts and inc.  The asserts on url
\* and out_dir and the division by num_parts abort the call when they fail.
DownloadBegin ==
    /\ dl_pc = "idle"
    /\ lock = None
    /\ IF url = None \/ out_dir = None
       THEN /\ dl_pc' = "panicked"
            /\ UNCHANGED <<num_parts, inc, dl_result>>
       ELSE IF get_headers_info = None
       THEN /\ dl_pc' = "returned"
            /\ dl_result' = Some(Err("header info is missing"))
            /\ UNCHANGED <<num_parts, inc>>
       ELSE LET info == Unwrap(get_headers_info)
                n == NumParts(info, max_parallel_connections)
            IN  IF n = 0
                THEN /\ dl_pc' = "panicked"
                     /\ UNCHANGED <<num_parts, inc, dl_result>>
                ELSE /\ num_parts' = n
                     /\ inc' = UnwrapOr(info.content_length, 0) \div n
                     /\ dl_pc' = "init_progress"
                     /\ UNCHANGED dl_result
    /\ UNCHANGED <<part, full_content, cfgVars, envVars, guiVars, reportVars, apiVars,
                   taskVars, fsVars, histVars, progress_vec, download_status>>

\* inner.progress_vec = vec![...; num_parts]
DownloadInitProgress ==
    /\ dl_pc = "init_progress"
    /\ progress_vec' = ZeroProgress(num_parts)
    /\ dl_pc' = "set_status"
    /\ UNCHANGED <<num_parts, inc, part, full_content, dl_result, cfgVars, envVars, guiVars,
                   reportVars, apiVars, taskVars, fsVars, histVars, download_status>>

\* download_status = Downloading
DownloadSetDownloading ==
    /\ dl_pc = "set_status"
    /\ download_status' = "Downloading"
    /\ part' = 0
    /\ dl_pc' = "spawn"
    /\ UNCHANGED <<num_parts, inc, full_content, dl_result, cfgVars, envVars, guiVars,
                   reportVars, apiVars, taskVars, fsVars, histVars, progress_vec>>

\* f extended with the value v at the new index k.
Push(f, k, v) == [i \in (DOMAIN f) \cup {k} |-> IF i = k THEN v ELSE f[i]]

\* One iteration of "for part in 0..num_parts": the range is computed and the
\* fetcher task is spawned; the loop ends when part reaches num_parts.
DownloadSpawn ==
    /\ dl_pc = "spawn"
    /\ IF part < num_parts
       THEN /\ task_pc' = Push(task_pc, part, "spawned")
            /\ task_range' = Push(task_range, part,
                                  <<StartByte(part, inc), EndByte(part, inc, num_parts)>>)
            /\ task_body' = Push(task_body, part, <<>>)
            /\ task_chunk' = Push(task_chunk, part, <<>>)
            /\ task_buffer' = Push(task_buffer, part, <<>>)
            /\ task_result' = Push(task_result, part, None)
            /\ delivered' = Push(delivered, part, <<>>)
            /\ part' = part + 1
            /\ UNCHANGED dl_pc
       ELSE /\ dl_pc' = "join"
            /\ UNCHANGED <<part, taskVars, delivered>>
    /\ UNCHANGED <<num_parts, inc, full_content, dl_result, cfgVars, envVars, guiVars,
                   reportVars, apiVars, fsVars, completed, waited, faults, progress_vec,
                   download_status>>


\* The origin's answer to "Range: bytes=s-e".  A server that honours ranges
\* answers 206 with the bytes s..min(e, length-1), and 416 when the range is
\* malformed (s > e) or starts past the end; a server that does not honour
\* ranges answers 200 with the whole resource.
ServerRespond(r) ==
    IF ~srv_ranges THEN [status |-> 200, body |-> Resource]
    ELSE IF r[1] > r[2] \/ r[1] >= res_len THEN [status |-> 416, body |-> <<>>]
    ELSE [status |-> 206, body |-> Slice(r[1], Min(r[2], res_len - 1))]

StatusErr(code) ==
    IF code = 200 THEN "Didn't recieve partial content, got status code : 200"
    ELSE "Didn't recieve partial content, got status code : 416"

\* Finish as it would be if a failed request were sent again.
FinishRetries(p, r) ==
    IF r.ok
    THEN /\ task_pc' = [task_pc EXCEPT ![p] = "done"]
         /\ task_result' = [task_result EXCEPT ![p] = Some(r)]
         /\ completed' = Append(completed, p)
    ELSE /\ task_pc' = [task_pc EXCEPT ![p] = "spawned"]
         /\ UNCHANGED <<task_result, completed>>

\* The fetcher task p terminates with result r.
Finish(p, r) ==
    /\ task_pc' = [task_pc EXCEPT ![p] = "done"]
    /\ task_result' = [task_result EXCEPT ![p] = Some(r)]
    /\ completed' = Append(completed, p)

\* download_part_from_url, up to the status check of the response: the request
\* is sent with the Range header; a send error or a status other than 206 ends
\* the task with Err.
FetcherSend(p) ==
    /\ task_pc[p] = "spawned"
    /\ \/ /\ faults < MaxFaults
          /\ faults' = faults + 1
          /\ Finish(p, Err("An error occured while sending the download request"))
          /\ UNCHANGED task_body
       \/ LET resp == ServerRespond(task_range[p])
          IN  /\ UNCHANGED faults
              /\ IF resp.status # 206
                 THEN /\ Finish(p, Err(StatusErr(resp.status)))
                      /\ UNCHANGED task_body
                 ELSE /\ task_pc' = [task_pc EXCEPT ![p] = "stream"]
                      /\ task_body' = [task_body EXCEPT ![p] = resp.body]
                      /\ UNCHANGED <<task_result, completed>>
    /\ UNCHANGED <<task_range, task_chunk, task_buffer, delivered, waited, cfgVars, envVars,
                   guiVars, reportVars, apiVars, dlVars, fsVars, progress_vec,
                   download_status>>

\* response.chunk().await.unwrap_or(None): the next chunk of the body; the end
\* of the body, or a transport error, leaves the loop and the task returns
\* Ok(buffer).
FetcherChunk(p) ==
    /\ task_pc[p] = "stream"
    /\ \/ /\ task_body[p] # <<>>
          /\ \E c \in 1..Min(MaxChunk, Len(task_body[p])) :
                /\ task_chunk' = [task_chunk EXCEPT ![p] = SubSeq(task_body[p], 1, c)]
                /\ task_body' = [task_body EXCEPT
                                   ![p] = SubSeq(task_body[p], c + 1, Len(task_body[p]))]
                /\ delivered' = [delivered EXCEPT
                                   ![p] = delivered[p] \o SubSeq(task_body[p], 1, c)]
          /\ task_pc' = [task_pc EXCEPT ![p] = "check"]
          /\ UNCHANGED <<task_result, completed, faults>>
       \/ /\ task_body[p] = <<>>
          /\ Finish(p, Ok(task_buffer[p]))
          /\ UNCHANGED <<task_body, task_chunk, delivered, faults>>
       \/ /\ task_body[p] # <<>>
          /\ faults < MaxFaults
          /\ faults' = faults + 1
          /\ Finish(p, Ok(task_buffer[p]))
          /\ UNCHANGED <<task_body, task_chunk, delivered>>
    /\ UNCHANGED <<task_range, task_buffer, waited, cfgVars, envVars, guiVars, reportVars,
                   apiVars, dlVars, fsVars, progress_vec, download_status>>

\* FetcherCheckStatus as it would be without the pause loop: the chunk is
\* appended whatever the status.
FetcherCheckIgnoresPause(p) ==
    /\ task_pc[p] = "check"
    /\ task_pc' = [task_pc EXCEPT ![p] = "append"]
    /\ UNCHANGED <<task_range, task_body, task_chunk, task_buffer, task_result, cfgVars,
                   envVars, guiVars, reportVars, apiVars, dlVars, fsVars, histVars,
                   progress_vec, download_status>>

\* match self.get_status(): Paused enters the polling loop, anything else goes on.
FetcherCheckStatus(p) ==
    /\ task_pc[p] = "check"
    /\ task_pc' = [task_pc EXCEPT
                     ![p] = IF download_status = "Paused" THEN "paused" ELSE "append"]
    /\ waited' = IF download_status = "Paused" THEN waited \cup {p} ELSE waited
    /\ UNCHANGED <<task_range, task_body, task_chunk, task_buffer, task_result, cfgVars,
                   envVars, guiVars, reportVars, apiVars, dlVars, fsVars, delivered,
                   completed, faults, progress_vec, download_status>>

\* FetcherPoll as it would be if leaving the pause loop went back to reading
\* the stream: the chunk held across the pause is dropped.
FetcherPollSkipsChunk(p) ==
    /\ task_pc[p] = "paused"
    /\ download_status = "Downloading"
    /\ task_pc' = [task_pc EXCEPT ![p] = "stream"]
    /\ task_chunk' = [task_chunk EXCEPT ![p] = <<>>]
    /\ UNCHANGED <<task_range, task_body, task_buffer, task_result, cfgVars, envVars, guiVars,
                   reportVars, apiVars, dlVars, fsVars, histVars, progress_vec,
                   download_status>>

\* FetcherPoll as it would be if the loop waited for Done instead of
\* Downloading.
FetcherPollWaitsForDone(p) ==
    /\ task_pc[p] = "paused"
    /\ download_status = "Done"
    /\ task_pc' = [task_pc EXCEPT ![p] = "append"]
    /\ UNCHANGED <<task_range, task_body, task_chunk, task_buffer, task_result, cfgVars,
                   envVars, guiVars, reportVars, apiVars, dlVars, fsVars, histVars,
                   progress_vec, download_status>>

\* One poll of the loop: only Downloading breaks it; otherwise the task sleeps.
FetcherPoll(p) ==
    /\ task_pc[p] = "paused"
    /\ download_status = "Downloading"
    /\ task_pc' = [task_pc EXCEPT ![p] = "append"]
    /\ UNCHANGED <<task_range, task_body, task_chunk, task_buffer, task_result, cfgVars,
                   envVars, guiVars, reportVars, apiVars, dlVars, fsVars, histVars,
                   progress_vec, download_status>>

\* ExtendBuffer as it would be if the chunk replaced the buffer.
ExtendBufferOverwrite(buffer, chunk) == chunk

\* buffer.extend_from_slice(&chunk)
ExtendBuffer(buffer, chunk) == buffer \o chunk

\* AddDownloaded as it would be with = in place of +=.
SetDownloaded(pv, p, n) == [pv EXCEPT ![p] = n]

\* progress_vec[part_num].downloaded_bytes += chunk.len()
AddDownloaded(pv, p, n) == [pv EXCEPT ![p] = pv[p] + n]

\* FetcherAppend as it would be if the chunk were counted in the slot after
\* the fetcher's own (an index off by one).
FetcherAppendNextSlot(p) ==
    /\ task_pc[p] = "append"
    /\ task_buffer' = [task_buffer EXCEPT ![p] = ExtendBuffer(task_buffer[p], task_chunk[p])]
    /\ progress_vec' = AddDownloaded(progress_vec, (p + 1) % num_parts, Len(task_chunk[p]))
    /\ task_chunk' = [task_chunk EXCEPT ![p] = <<>>]
    /\ task_pc' = [task_pc EXCEPT ![p] = "stream"]
    /\ UNCHANGED <<task_range, task_body, task_result, cfgVars, envVars, guiVars, reportVars,
                   apiVars, dlVars, fsVars, histVars, download_status>>

\* The chunk is appended to the buffer and counted in the part's progress slot.
FetcherAppend(p) ==
    /\ task_pc[p] = "append"
    /\ task_buffer' = [task_buffer EXCEPT ![p] = ExtendBuffer(task_buffer[p], task_chunk[p])]
    /\ progress_vec' = AddDownloaded(progress_vec, p, Len(task_chunk[p]))
    /\ task_chunk' = [task_chunk EXCEPT ![p] = <<>>]
    /\ task_pc' = [task_pc EXCEPT ![p] = "stream"]
    /\ UNCHANGED <<task_range, task_body, task_result, cfgVars, envVars, guiVars, reportVars,
                   apiVars, dlVars, fsVars, histVars, download_status>>

\* The bytes download() takes from a task's result: Err becomes an empty buffer.
PartialBuffer(res) == IF res.ok THEN res.bytes ELSE <<>>

\* Assemble as it would be if the results were taken as the tasks terminate.
RECURSIVE AssembleByCompletion(_, _)
AssembleByCompletion(results, n) ==
    IF n = 0 THEN <<>>
    ELSE AssembleByCompletion(results, n - 1) \o PartialBuffer(Unwrap(results[completed[n]]))

\* The loop over download_results: the buffers of parts 0..n-1, in that order.
RECURSIVE Assemble(_, _)
Assemble(results, n) ==
    IF n = 0 THEN <<>>
    ELSE Assemble(results, n - 1) \o PartialBuffer(Unwrap(results[n - 1]))

\* The buffers of the tasks among 0..n-1 that have terminated, in task order.
RECURSIVE AssembleFinished(_, _)
AssembleFinished(results, n) ==
    IF n = 0 THEN <<>>
    ELSE AssembleFinished(results, n - 1)
           \o (IF IsSome(results[n - 1]) THEN PartialBuffer(Unwrap(results[n - 1])) ELSE <<>>)

\* DownloadJoin as it would be if download() went on as soon as one task had
\* terminated (a select in place of join_all).
DownloadJoinFirst ==
    /\ dl_pc = "join"
    /\ \E p \in Parts : task_pc[p] = "done"
    /\ full_content' = AssembleFinished(task_result, num_parts)
    /\ dl_pc' = "write"
    /\ UNCHANGED <<num_parts, inc, part, dl_result, cfgVars, envVars, guiVars, reportVars,
                   apiVars, taskVars, fsVars, histVars, progress_vec, download_status>>

\* join_all(tasks).await returns once every task has terminated, with the
\* results in task order; they are concatenated into full_content.
DownloadJoin ==
    /\ dl_pc = "join"
    /\ \A p \in Parts : task_pc[p] = "done"
    /\ full_content' = Assemble(task_result, num_parts)
    /\ dl_pc' = "write"
    /\ UNCHANGED <<num_parts, inc, part, dl_result, cfgVars, envVars, guiVars, reportVars,
                   apiVars, taskVars, fsVars, histVars, progress_vec, download_status>>

\* DownloadWrite as it would be if the sink's result were dropped instead of
\* returned with the ? operator.
DownloadWriteIgnoresError ==
    /\ dl_pc = "write"
    /\ \/ /\ file' = Some(full_content)
          /\ file_writes' = file_writes + 1
          /\ UNCHANGED faults
       \/ /\ faults < MaxFaults
          /\ faults' = faults + 1
          /\ file' \in {file, Some(<<>>)}
          /\ UNCHANGED file_writes
    /\ dl_pc' = "set_done"
    /\ UNCHANGED <<num_parts, inc, part, full_content, dl_result, cfgVars, envVars, guiVars,
                   reportVars, apiVars, taskVars, delivered, completed, waited, progress_vec,
                   download_status>>

\* write_bytes_to_file_in_dir(..)?: the file is created under out_dir and the
\* buffer written; an io error returns Err from download() with the file
\* absent (creation failed) or present but empty (the write failed).
DownloadWrite ==
    /\ dl_pc = "write"
    /\ \/ /\ file' = Some(full_content)
          /\ file_writes' = file_writes + 1
          /\ dl_pc' = "set_done"
          /\ UNCHANGED <<dl_result, faults>>
       \/ /\ faults < MaxFaults
          /\ faults' = faults + 1
          /\ file' \in {file, Some(<<>>)}
          /\ dl_result' = Some(Err("io error"))
          /\ dl_pc' = "returned"
          /\ UNCHANGED file_writes
    /\ UNCHANGED <<num_parts, inc, part, full_content, cfgVars, envVars, guiVars, reportVars,
                   apiVars, taskVars, delivered, completed, waited, progress_vec,
                   download_status>>

\* DownloadSetDone as it would be if download() took the header info out of
\* the job (Option::take) instead of cloning it.
DownloadSetDoneTakesInfo ==
    /\ dl_pc = "set_done"
    /\ download_status' = "Done"
    /\ dl_result' = Some(Ok(<<>>))
    /\ dl_pc' = "returned"
    /\ get_headers_info' = None
    /\ UNCHANGED <<num_parts, inc, part, full_content, url, out_dir, max_parallel_connections,
                   envVars, guiVars, reportVars, apiVars, taskVars, fsVars, histVars,
                   progress_vec>>

\* download_status = Done; Ok(true)
DownloadSetDone ==
    /\ dl_pc = "set_done"
    /\ download_status' = "Done"
    /\ dl_result' = Some(Ok(<<>>))
    /\ dl_pc' = "returned"
    /\ UNCHANGED <<num_parts, inc, part, full_content, cfgVars, envVars, guiVars, reportVars,
                   apiVars, taskVars, fsVars, histVars, progress_vec>>

Next ==
    \/ set_url
    \/ set_out_dir
    \/ init_send
    \/ init
    \/ pause
    \/ resume
    \/ DownloadBegin
    \/ DownloadInitProgress
    \/ DownloadSetDownloading
    \/ DownloadSpawn
    \/ DownloadJoin
    \/ DownloadWrite
    \/ DownloadSetDone
    \/ \E p \in DOMAIN task_pc : FetcherSend(p)
    \/ \E p \in DOMAIN task_pc : FetcherChunk(p)
    \/ \E p \in DOMAIN task_pc : FetcherCheckStatus(p)
    \/ \E p \in DOMAIN task_pc : FetcherPoll(p)
    \/ \E p \in DOMAIN task_pc : FetcherAppend(p)

Spec == Init /\ [][Next]_vars

\* update_download(), first await: get_progress_vec() clones the progress
\* vector under the mutex and releases it.
update_download_progress ==
    /\ rd_pc = "idle"
    /\ lock = None
    /\ rd_progress' = progress_vec
    /\ rd_pc' = "got_progress"
    /\ UNCHANGED <<rd_status, cfgVars, envVars, guiVars, apiVars, dlVars, taskVars, fsVars,
                   histVars, progress_vec, download_status>>

\* update_download(), second await: get_status() takes the mutex again and
\* reads the status; the pair is returned.
update_download_status ==
    /\ rd_pc = "got_progress"
    /\ lock = None
    /\ rd_status' = download_status
    /\ rd_pc' = "returned"
    /\ UNCHANGED <<rd_progress, cfgVars, envVars, guiVars, apiVars, dlVars, taskVars, fsVars,
                   histVars, progress_vec, download_status>>

\* Message::UpdateDownloadCallback: the pair is shown in the row, and
\* update_download() is performed again only when the status read is
\* Downloading.
UpdateDownloadCallback ==
    /\ rd_pc = "returned"
    /\ rd_pc' = IF rd_status = "Downloading" THEN "idle" ELSE "shown"
    /\ UNCHANGED <<rd_progress, rd_status, cfgVars, envVars, guiVars, apiVars, dlVars,
                   taskVars, fsVars, histVars, progress_vec, download_status>>

\* A job that is never paused, with its reporting reader: the
\* update_download() performed together with download() by the start button,
\* and its callback.
NextReport ==
    \/ set_url
    \/ set_out_dir
    \/ init_send
    \/ init
    \/ DownloadBegin
    \/ DownloadInitProgress
    \/ DownloadSetDownloading
    \/ DownloadSpawn
    \/ DownloadJoin
    \/ DownloadWrite
    \/ DownloadSetDone
    \/ \E p \in DOMAIN task_pc : FetcherSend(p)
    \/ \E p \in DOMAIN task_pc : FetcherChunk(p)
    \/ \E p \in DOMAIN task_pc : FetcherCheckStatus(p)
    \/ \E p \in DOMAIN task_pc : FetcherAppend(p)
    \/ update_download_progress
    \/ update_download_status
    \/ UpdateDownloadCallback

SpecReport == Init /\ [][NextReport]_vars

\* The configuration and probe phase of a job, with the failing probes: the
\* setters, init() with each of its outcomes, pause() and resume().
NextProbe ==
    \/ set_url
    \/ set_out_dir
    \/ init_send
    \/ init
    \/ \E e \in ProbeFailures : init_fails(e)
    \/ pause
    \/ resume

SpecProbe == Init /\ [][NextProbe]_vars

\* The parsing done in the configuration and probe phase: set_url with every
\* string it may be given and init() with every response a probe may meet.
\* Neither reads max_parallel_connections nor asks for a range.
InitParse == Init /\ max_parallel_connections = MaxPar /\ srv_ranges

NextParse ==
    \/ \E s \in UrlInputs : set_url_with(s)
    \/ set_out_dir
    \/ init_send
    \/ \E h \in ProbeResponses : init_response(h)
    \/ \E e \in ProbeFailures : init_fails(e)

SpecParse == InitParse /\ [][NextParse]_vars


\* The planning of download() for the file of the testing server, at each
\* parallelism up to the GUI's: the setters, init() and download() up to the
\* end of its spawn loop.  The origin honours Range.
InitSizes ==
    /\ NewJob
    /\ max_parallel_connections \in 1..GuiParallel
    /\ res_len = TestFileBytes
    /\ srv_ranges = TRUE

NextSizes ==
    \/ set_url
    \/ set_out_dir
    \/ init_send
    \/ init
    \/ DownloadBegin
    \/ DownloadInitProgress
    \/ DownloadSetDownloading
    \/ DownloadSpawn

SpecSizes == InitSizes /\ [][NextSizes]_vars

\* The pause loop of a fetcher sleeps 500 ms and polls again: the runtime's
\* timer wakes the task, so a poll that stays possible is eventually made.
Fairness == \A p \in 0..(MaxPar - 1) : WF_vars(p \in DOMAIN task_pc /\ FetcherPoll(p))

\* The jobs followed under fairness: those of a parallelism up to MaxFairPar.
InitFair == Init /\ max_parallel_connections <= MaxFairPar

SpecFair == InitFair /\ [][Next]_vars /\ Fairness

(***************************************************************************)
(* RustleGUI (src/gui/rustle_gui.rs): the row of one job in the downloads  *)
(* map, the messages of its buttons, the commands those messages perform   *)
(* on the runtime and the callbacks the commands end with.  A command is a *)
(* future running beside the GUI: start_download() is the engine's         *)
(* download(), of which the first execution is followed step by step and   *)
(* the later ones are counted; update_download() is two reads of the job.  *)
(* StartDownloadCallback changes nothing and is left out.                  *)
(***************************************************************************)

\* Bounds of the GUI: the update_download() commands in flight at a time, the
\* start_download() commands performed, the pause or resume commands and
\* callbacks outstanding at a time, and the connections and the resource
\* length of the job behind the row.
MaxPolls == 1
MaxStarts == 2
MaxPending == 1
MaxGuiPar == 1
MaxGuiLen == 1

\* The row DownloadInitCallback inserts for the probed headers.
DownloadRowInfo(headers) ==
    [file_name |-> headers.file_name,
     file_size |-> Some(UnwrapOr(headers.content_length, 0)),
     download_progress |-> <<>>,
     download_status |-> "Idle"]

\* An update_download() command just performed.
NewPoll == [pc |-> "performed", progress |-> <<>>, status |-> "Idle"]

RemoveAt(s, i) == SubSeq(s, 1, i - 1) \o SubSeq(s, i + 1, Len(s))

\* DownloadInitCallback(Ok((Some(headers), engine))): init_download() has set
\* the URL and the directory and init() has returned Ok; the row is inserted
\* under the counter's value, Idle and with no progress.
DownloadInitCallback ==
    /\ downloads_counter = 0
    /\ IsSome(url) /\ IsSome(out_dir)
    /\ lock = None
    /\ IsSome(init_result) /\ Unwrap(init_result).ok
    /\ IsSome(get_headers_info)
    /\ downloads' = Some(DownloadRowInfo(Unwrap(get_headers_info)))
    /\ downloads_counter' = downloads_counter + 1
    /\ UNCHANGED <<start_cmds, polls, commands, messages, cancelled_in_flight, cfgVars,
                   envVars, apiVars, reportVars, dlVars, taskVars, fsVars, histVars,
                   progress_vec, download_status>>

\* StartDownloadButtonPressed: the play button of an Idle row.  Two commands
\* are performed, start_download() and update_download().
StartDownloadButtonPressed ==
    /\ IsSome(downloads)
    /\ Unwrap(downloads).download_status = "Idle"
    /\ start_cmds < MaxStarts
    /\ Len(polls) < MaxPolls
    /\ start_cmds' = start_cmds + 1
    /\ polls' = Append(polls, NewPoll)
    /\ UNCHANGED <<downloads, downloads_counter, commands, messages, cancelled_in_flight,
                   cfgVars, envVars, apiVars, reportVars, dlVars, taskVars, fsVars, histVars,
                   progress_vec, download_status>>

\* start_download(): the first command performed begins download().
start_download ==
    /\ start_cmds >= 1
    /\ DownloadBegin

\* update_download(), first await, of the i-th command in flight:
\* get_progress_vec() clones the progress vector under the mutex.
update_download_get_progress_vec(i) ==
    /\ polls[i].pc = "performed"
    /\ lock = None
    /\ polls' = [polls EXCEPT ![i].pc = "got_progress", ![i].progress = progress_vec]
    /\ UNCHANGED <<downloads, downloads_counter, start_cmds, commands, messages,
                   cancelled_in_flight, cfgVars, envVars, apiVars, reportVars, dlVars,
                   taskVars, fsVars, histVars, progress_vec, download_status>>

\* update_download(), second await: get_status() takes the mutex again; the
\* command returns and its callback is queued.
update_download_get_status(i) ==
    /\ polls[i].pc = "got_progress"
    /\ lock = None
    /\ polls' = [polls EXCEPT ![i].pc = "returned", ![i].status = download_status]
    /\ UNCHANGED <<downloads, downloads_counter, start_cmds, commands, messages,
                   cancelled_in_flight, cfgVars, envVars, apiVars, reportVars, dlVars,
                   taskVars, fsVars, histVars, progress_vec, download_status>>

\* The UpdateDownloadCallback handler as it would be if it polled again
\* without looking for the row.
RowUpdateDownloadCallbackAlwaysPolls(i) ==
    /\ polls[i].pc = "returned"
    /\ polls' = [polls EXCEPT ![i] = NewPoll]
    /\ UNCHANGED <<downloads, downloads_counter, start_cmds, commands, messages,
                   cancelled_in_flight, cfgVars, envVars, apiVars, reportVars, dlVars,
                   taskVars, fsVars, histVars, progress_vec, download_status>>

\* UpdateDownloadCallback for the row: if the row is still in the map its
\* progress and status are overwritten with the pair read, and
\* update_download() is performed again only when the status read is
\* Downloading; for a row no longer in the map nothing is done.
RowUpdateDownloadCallback(i) ==
    /\ polls[i].pc = "returned"
    /\ IF IsSome(downloads)
       THEN /\ downloads' = Some([Unwrap(downloads) EXCEPT
                                     !.download_progress = polls[i].progress,
                                     !.download_status = polls[i].status])
            /\ polls' = IF polls[i].status = "Downloading"
                        THEN [polls EXCEPT ![i] = NewPoll]
                        ELSE RemoveAt(polls, i)
       ELSE /\ polls' = RemoveAt(polls, i)
            /\ UNCHANGED downloads
    /\ UNCHANGED <<downloads_counter, start_cmds, commands, messages, cancelled_in_flight,
                   cfgVars, envVars, apiVars, reportVars, dlVars, taskVars, fsVars, histVars,
                   progress_vec, download_status>>

\* PauseDownloadButtonPressed: the pause button of a Downloading row performs
\* pause_download().
PauseDownloadButtonPressed ==
    /\ IsSome(downloads)
    /\ Unwrap(downloads).download_status = "Downloading"
    /\ commands.pause + messages.pause < MaxPending
    /\ commands' = [commands EXCEPT !.pause = @ + 1]
    /\ UNCHANGED <<downloads, downloads_counter, start_cmds, polls, messages,
                   cancelled_in_flight, cfgVars, envVars, apiVars, reportVars, dlVars,
                   taskVars, fsVars, histVars, progress_vec, download_status>>

\* pause_download(): engine.pause(), then the callback is queued.
pause_download ==
    /\ commands.pause > 0
    /\ lock = None
    /\ download_status' = PauseStatus(download_status)
    /\ commands' = [commands EXCEPT !.pause = @ - 1]
    /\ messages' = [messages EXCEPT !.pause = @ + 1]
    /\ UNCHANGED <<downloads, downloads_counter, start_cmds, polls, cancelled_in_flight,
                   cfgVars, envVars, apiVars, reportVars, dlVars, taskVars, fsVars, histVars,
                   progress_vec>>

\* PauseDownloadCallback: the row, if still in the map, is shown Paused.
PauseDownloadCallback ==
    /\ messages.pause > 0
    /\ messages' = [messages EXCEPT !.pause = @ - 1]
    /\ downloads' = IF IsSome(downloads)
                    THEN Some([Unwrap(downloads) EXCEPT !.download_status = "Paused"])
                    ELSE downloads
    /\ UNCHANGED <<downloads_counter, start_cmds, polls, commands, cancelled_in_flight,
                   cfgVars, envVars, apiVars, reportVars, dlVars, taskVars, fsVars, histVars,
                   progress_vec, download_status>>

\* ResumeDownloadButtonPressed: the play button of a Paused row performs
\* resume_download() and update_download().
ResumeDownloadButtonPressed ==
    /\ IsSome(downloads)
    /\ Unwrap(downloads).download_status = "Paused"
    /\ commands.resume + messages.resume < MaxPending
    /\ Len(polls) < MaxPolls
    /\ commands' = [commands EXCEPT !.resume = @ + 1]
    /\ polls' = Append(polls, NewPoll)
    /\ UNCHANGED <<downloads, downloads_counter, start_cmds, messages, cancelled_in_flight,
                   cfgVars, envVars, apiVars, reportVars, dlVars, taskVars, fsVars, histVars,
                   progress_vec, download_status>>

\* resume_download(): engine.resume(), then the callback is queued.
resume_download ==
    /\ commands.resume > 0
    /\ lock = None
    /\ download_status' = ResumeStatus(download_status)
    /\ commands' = [commands EXCEPT !.resume = @ - 1]
    /\ messages' = [messages EXCEPT !.resume = @ + 1]
    /\ UNCHANGED <<downloads, downloads_counter, start_cmds, polls, cancelled_in_flight,
                   cfgVars, envVars, apiVars, reportVars, dlVars, taskVars, fsVars, histVars,
                   progress_vec>>

\* ResumeDownloadCallback: the row, if still in the map, is shown Downloading.
ResumeDownloadCallback ==
    /\ messages.resume > 0
    /\ messages' = [messages EXCEPT !.resume = @ - 1]
    /\ downloads' = IF IsSome(downloads)
                    THEN Some([Unwrap(downloads) EXCEPT !.download_status = "Downloading"])
                    ELSE downloads
    /\ UNCHANGED <<downloads_counter, start_cmds, polls, commands, cancelled_in_flight,
                   cfgVars, envVars, apiVars, reportVars, dlVars, taskVars, fsVars, histVars,
                   progress_vec, download_status>>

\* A start_download() command has been performed and its download() has not
\* returned.
DownloadInFlight == start_cmds >= 1 /\ dl_pc \notin {"returned", "panicked"}

\* The cancel handler as it would be if it also stopped the engine's job.
CancelDownloadButtonPressedAborts ==
    /\ IsSome(downloads)
    /\ downloads' = None
    /\ cancelled_in_flight' = DownloadInFlight
    /\ download_status' = "Error"
    /\ UNCHANGED <<downloads_counter, start_cmds, polls, commands, messages, cfgVars, envVars,
                   apiVars, reportVars, dlVars, taskVars, fsVars, histVars, progress_vec>>

\* CancelDownloadButtonPressed: the row is removed from the map; nothing is
\* performed and the engine is not called.
CancelDownloadButtonPressed ==
    /\ IsSome(downloads)
    /\ downloads' = None
    /\ cancelled_in_flight' = DownloadInFlight
    /\ UNCHANGED <<downloads_counter, start_cmds, polls, commands, messages, cfgVars, envVars,
                   apiVars, reportVars, dlVars, taskVars, fsVars, histVars, progress_vec,
                   download_status>>

\* The engine the GUI builds and the origin it is pointed at.  The GUI asks
\* for four connections (RustleDownloader::new(4)); its handlers and commands
\* never look at the number of parts, and the row is followed with a job of up
\* to MaxGuiPar connections on an origin that honours Range.
InitGui ==
    /\ NewJob
    /\ max_parallel_connections \in 1..MaxGuiPar
    /\ res_len \in 1..MaxGuiLen
    /\ srv_ranges = TRUE

\* init_download() runs before the row exists; from then on the job is driven
\* by the commands of the row's buttons alone.
NextGui ==
    \/ downloads_counter = 0 /\ set_url
    \/ downloads_counter = 0 /\ set_out_dir
    \/ downloads_counter = 0 /\ init_send
    \/ init
    \/ DownloadInitCallback
    \/ StartDownloadButtonPressed
    \/ PauseDownloadButtonPressed
    \/ ResumeDownloadButtonPressed
    \/ CancelDownloadButtonPressed
    \/ start_download
    \/ pause_download
    \/ resume_download
    \/ PauseDownloadCallback
    \/ ResumeDownloadCallback
    \/ \E i \in DOMAIN polls : update_download_get_progress_vec(i)
    \/ \E i \in DOMAIN polls : update_download_get_status(i)
    \/ \E i \in DOMAIN polls : RowUpdateDownloadCallback(i)
    \/ DownloadInitProgress
    \/ DownloadSetDownloading
    \/ DownloadSpawn
    \/ DownloadJoin
    \/ DownloadWrite
    \/ DownloadSetDone
    \/ \E p \in DOMAIN task_pc : FetcherSend(p)
    \/ \E p \in DOMAIN task_pc : FetcherChunk(p)
    \/ \E p \in DOMAIN task_pc : FetcherCheckStatus(p)
    \/ \E p \in DOMAIN task_pc : FetcherPoll(p)
    \/ \E p \in DOMAIN task_pc : FetcherAppend(p)

SpecGui == InitGui /\ [][NextGui]_vars

(***************************************************************************)
(* Properties.                                                             *)
(***************************************************************************)

\* download() has left its spawn loop: every planned range has been requested.
PlanDone == dl_pc \in {"join", "write", "set_done", "returned"} /\ num_parts > 0

\* The probe reported range support and a content length.
RangesSupported ==
    /\ IsSome(get_headers_info)
    /\ Unwrap(get_headers_info).support_partial = "Yes"
    /\ IsSome(Unwrap(get_headers_info).content_length)

TotalLength == Unwrap(Unwrap(get_headers_info).content_length)

\* The bytes of the resource that the inclusive range r asks for.
RangeBytes(r) == {b \in 0..(res_len - 1) : r[1] <= b /\ b <= r[2]}

\* C1: with range support, total_length >= 1 and parallelism >= 1, the ranges
\* download() requests are ordered ascending by start byte, pairwise
\* non-overlapping, and together cover exactly the bytes 0..total_length-1.
C1_RangePlanCoverage ==
    (PlanDone /\ RangesSupported /\ TotalLength >= 1 /\ max_parallel_connections >= 1) =>
        /\ \A p, q \in Parts : p < q => task_range[p][1] <= task_range[q][1]
        /\ \A p, q \in Parts : p # q => RangeBytes(task_range[p]) \cap RangeBytes(task_range[q]) = {}
        /\ UNION {RangeBytes(task_range[p]) : p \in Parts} = 0..(TotalLength - 1)

\* Every part fetcher got a 206 and read its body to the end.
AllPartsServed ==
    /\ srv_ranges
    /\ faults = 0
    /\ \A p \in Parts : IsSome(task_result[p]) /\ Unwrap(task_result[p]).ok

\* C2: against a server that answers every ranged request with 206, the file
\* download() writes equals the resource byte for byte, for every length,
\* parallelism and completion order.
C2_RoundTrip ==
    (PlanDone /\ dl_pc = "returned" /\ RangesSupported /\ AllPartsServed
        /\ max_parallel_connections >= 1) =>
        file = Some(Resource)

SomePartFailed == \E p \in Parts : IsSome(task_result[p]) /\ ~Unwrap(task_result[p]).ok

FailureDetails ==
    {Unwrap(task_result[p]).err : p \in {q \in Parts : ~Unwrap(task_result[q]).ok}}

\* C3: when a part fetcher has failed (and the persistence sink has not),
\* download() returns a failure carrying a failed part's detail, writes no
\* output file and leaves the status Error.
C3_WholeJobFailure ==
    [][(PlanDone /\ SomePartFailed /\ dl_pc # "returned" /\ dl_pc' = "returned"
          /\ faults' = faults) =>
          /\ ~Unwrap(dl_result').ok
          /\ Unwrap(dl_result').err \in FailureDetails
          /\ file' = None
          /\ download_status' = "Error"]_vars

StatusEdges ==
    {<<"Idle", "Downloading">>, <<"Downloading", "Paused">>, <<"Paused", "Downloading">>,
     <<"Downloading", "Done">>, <<"Downloading", "Error">>, <<"Paused", "Error">>}

\* C4: the status changes only along Idle->Downloading, Downloading->Paused,
\* Paused->Downloading, Downloading->Done and active->Error; Done and Error are
\* never left.
C4_StatusStateMachine ==
    [][download_status' # download_status =>
          <<download_status, download_status'>> \in StatusEdges]_vars

\* C5: pause() sets Paused only from Downloading and resume() sets Downloading
\* only from Paused, each leaving any other status as it is, and each is
\* idempotent.
C5_GuardedPauseResume ==
    [][/\ pause => download_status' =
                     IF download_status = "Downloading" THEN "Paused" ELSE download_status
       /\ resume => download_status' =
                     IF download_status = "Paused" THEN "Downloading" ELSE download_status
       /\ PauseStatus(PauseStatus(download_status)) = PauseStatus(download_status)
       /\ ResumeStatus(ResumeStatus(download_status)) = ResumeStatus(download_status)]_vars

\* The buffer part p contributes to the output: what its fetcher returned, or
\* nothing when it failed.
PartBuffer(p) ==
    IF Unwrap(task_result[p]).ok THEN Unwrap(task_result[p]).bytes ELSE <<>>

\* The number of bytes contributed by the parts before part p.
RECURSIVE Offset(_)
Offset(p) == IF p = 0 THEN 0 ELSE Offset(p - 1) + Len(PartBuffer(p - 1))

Joined == dl_pc \in {"write", "set_done"} \/ (dl_pc = "returned" /\ num_parts > 0)

\* C6: the assembled buffer holds the part buffers in ascending part index,
\* each at the offset given by the lengths of the parts before it, whatever
\* the order in which the fetcher tasks terminated.
C6_AssemblyOrder ==
    Joined =>
        /\ Len(full_content) = Offset(num_parts)
        /\ \A p \in Parts : \A k \in 1..Len(PartBuffer(p)) :
              full_content[Offset(p) + k] = PartBuffer(p)[k]

\* C6 witness: two parts returned non-empty buffers, the later part first.
C6_Witness ==
    /\ Joined
    /\ num_parts >= 2
    /\ completed[1] # 0
    /\ Len(PartBuffer(0)) > 0
    /\ Len(PartBuffer(1)) > 0

\* C7: with range support, each of the first parallelism-1 ranges holds
\* floor(total_length / parallelism) bytes, the first range starts at byte 0
\* and the last range ends at byte total_length-1.
C7_RemainderRule ==
    (PlanDone /\ RangesSupported /\ TotalLength >= 1 /\ max_parallel_connections >= 1) =>
        /\ \A p \in Parts : p < num_parts - 1 =>
              task_range[p][2] - task_range[p][1] + 1 = TotalLength \div num_parts
        /\ task_range[0][1] = 0
        /\ task_range[num_parts - 1][2] = TotalLength - 1

\* C8: without range support, or without a content length, exactly one part is
\* planned (one progress slot, one fetcher) and its range covers the resource.
C8_SingleRangeFallback ==
    (PlanDone /\ IsSome(get_headers_info) /\ ~RangesSupported) =>
        /\ num_parts = 1
        /\ DOMAIN progress_vec = {0}
        /\ DOMAIN task_pc = {0}
        /\ RangeBytes(task_range[0]) = 0..(res_len - 1)

\* C9: the buffer a fetcher returns is the concatenation, in delivery order, of
\* the chunks the transport delivered to it, under every interleaving of
\* pause() and resume() with its chunk stream.
C9_PausePreservesBytes ==
    \A p \in DOMAIN task_pc :
        (task_pc[p] = "done" /\ Unwrap(task_result[p]).ok) =>
            Unwrap(task_result[p]).bytes = delivered[p]

\* C9 witness: a fetcher that waited in the pause loop returned two bytes or more.
C9_Witness ==
    \E p \in waited :
        /\ task_pc[p] = "done"
        /\ Unwrap(task_result[p]).ok
        /\ Len(delivered[p]) >= 2

\* C10: once download() has initialised the progress vector, no step lowers a
\* part's downloaded_bytes or removes its slot.
C10_MonotonicProgress ==
    [][dl_pc \notin {"idle", "init_progress"} =>
          \A i \in DOMAIN progress_vec :
              i \in DOMAIN progress_vec' /\ progress_vec'[i] >= progress_vec[i]]_vars

\* C10 witness: a part that waited in the pause loop has counted two chunks.
C10_Witness ==
    \E p \in waited : progress_vec[p] >= 2 /\ Len(task_buffer[p]) = progress_vec[p]


\* C11: a fetcher whose ranged request is answered with a status other than
\* 206 ends with an error and no bytes, and download() then leaves the job
\* status Error.
C11_Non206Response ==
    [][/\ \A p \in DOMAIN task_pc :
             (task_pc[p] = "spawned" /\ task_pc'[p] # "spawned" /\ faults' = faults
                /\ ServerRespond(task_range[p]).status # 206) =>
                 /\ task_pc'[p] = "done"
                 /\ ~Unwrap(task_result'[p]).ok
                 /\ Unwrap(task_result'[p]).bytes = <<>>
       /\ (PlanDone /\ dl_pc # "returned" /\ dl_pc' = "returned" /\ faults' = faults
             /\ \E p \in Parts : ServerRespond(task_range[p]).status # 206) =>
              download_status' = "Error"]_vars

\* C12: a fetcher whose body read fails after the stream has started returns a
\* failure, not the bytes received so far.
C12_MidStreamError ==
    [][\A p \in DOMAIN task_pc :
          (task_pc[p] = "stream" /\ task_pc'[p] = "done" /\ faults' = faults + 1) =>
              ~Unwrap(task_result'[p]).ok]_vars

C14_MissingPrecondition ==
    (dl_pc # "idle" /\ (url = None \/ out_dir = None)) =>
        /\ dl_pc = "returned"
        /\ IsSome(dl_result)
        /\ ~Unwrap(dl_result).ok

\* C15: the output file is touched only once every fetcher task of the job has
\* been spawned and has terminated.
C15_WriteAfterJoin ==
    (IsSome(file) \/ file_writes > 0) =>
        /\ num_parts > 0
        /\ DOMAIN task_pc = Parts
        /\ \A p \in Parts : task_pc[p] = "done" /\ IsSome(task_result[p])

\* C15 witness: the file has been written for a job of two parts or more.
C15_Witness ==
    /\ file_writes = 1
    /\ num_parts >= 2
    /\ IsSome(file) /\ Len(Unwrap(file)) >= 2

\* C16: the status is Done, and download() returns Ok, only with the assembled
\* buffer written by the sink, and the file is written at most once, exactly
\* once when download() succeeds.
C16_DoneImpliesPersisted ==
    /\ file_writes <= 1
    /\ (download_status = "Done" \/ dl_pc = "set_done"
          \/ (dl_pc = "returned" /\ Unwrap(dl_result).ok)) =>
           /\ file_writes = 1
           /\ file = Some(full_content)

\* C16 witness: the job is Done with a written file of two bytes or more.
C16_Witness ==
    /\ download_status = "Done"
    /\ dl_pc = "returned"
    /\ file_writes = 1
    /\ Len(full_content) >= 2

\* C17: when the persistence sink fails, download() returns a failure and the
\* status becomes Error.
C17_PersistenceFailure ==
    [][(dl_pc = "write" /\ dl_pc' # "write" /\ faults' = faults + 1) =>
          /\ dl_pc' = "returned"
          /\ ~Unwrap(dl_result').ok
          /\ download_status' = "Error"]_vars

\* C18: when init() fails, the status becomes Error and the stored header info
\* is left as it was.
C18_ProbeFailure ==
    [][(\E e \in ProbeFailures : init_fails(e)) =>
          /\ download_status' = "Error"
          /\ get_headers_info' = get_headers_info]_vars

\* C19: no job has max_parallel_connections = 0, and download() never aborts
\* on the division of the content length by num_parts.
C19_ZeroParallelismRejected ==
    /\ max_parallel_connections >= 1
    /\ ~(dl_pc = "panicked" /\ IsSome(url) /\ IsSome(out_dir))

\* The holder of the mutex is awaiting the network.  init() is the one call
\* whose guard outlives a step: it is taken before the probe request is sent
\* and dropped after the response has been read, so init() holds the mutex
\* exactly while it awaits the probe.  download() and the fetchers take the
\* mutex inside single steps, none of which awaits a request or a chunk.
HolderAwaitsNetwork == lock = Some("init")

\* C20: no call holds the job mutex while it awaits a network request or a
\* response read.
C20_LockDiscipline == ~(IsSome(lock) /\ HolderAwaitsNetwork)

\* C21: the (progress vector, status) pair update_download() hands to its
\* callback is one state of the job: a pair whose status is Done carries the
\* progress vector of the finished job, in which every chunk is counted.
C21_ConsistentSnapshot ==
    (rd_pc = "returned" /\ rd_status = "Done") => rd_progress = progress_vec

\* download() is past the initialisation of the progress vector.
ProgressInitialised ==
    dl_pc \in {"set_status", "spawn", "join", "write", "set_done"}
        \/ (dl_pc = "returned" /\ num_parts > 0)

\* C22: download() creates one progress slot per planned range, and a step
\* that changes slot i is the append of the fetcher of part i, in which no
\* other fetcher moves and no other slot changes.
C22_SlotOwnership ==
    [][/\ ProgressInitialised' => DOMAIN progress_vec' = 0..(num_parts' - 1)
       /\ PlanDone' => DOMAIN task_range' = DOMAIN progress_vec'
       /\ \A i \in DOMAIN progress_vec :
             (i \in DOMAIN progress_vec' /\ progress_vec'[i] # progress_vec[i]) =>
                 /\ i \in DOMAIN task_pc
                 /\ task_pc[i] = "append" /\ task_pc'[i] = "stream"
                 /\ task_buffer'[i] = task_buffer[i] \o task_chunk[i]
                 /\ \A j \in DOMAIN task_pc \ {i} :
                       task_pc'[j] = task_pc[j] /\ progress_vec'[j] = progress_vec[j]]_vars

\* C22 witness: every fetcher of a job of two parts or more has counted a
\* chunk in its own slot while the parts run.
C22_Witness ==
    /\ dl_pc = "join"
    /\ num_parts >= 2
    /\ \A p \in Parts : progress_vec[p] >= 1 /\ progress_vec[p] = Len(task_buffer[p])

\* The number of bytes the origin serves for the inclusive range r.
ServedLen(r) ==
    IF r[1] > r[2] \/ r[1] >= res_len THEN 0 ELSE Min(r[2], res_len - 1) - r[1] + 1

RECURSIVE ServedTotal(_)
ServedTotal(n) == IF n = 0 THEN 0 ELSE ServedTotal(n - 1) + ServedLen(task_range[n - 1])

\* C23: for the 64 MB file of the testing server (67108864 bytes), with range
\* support and parallelism 4, download() requests 4 ranges, each of the first
\* three holds exactly 16777216 bytes, and the ranges together bring
\* 67108864 bytes to the output file.
C23_EndToEndSizes ==
    (PlanDone /\ RangesSupported /\ TotalLength = TestFileBytes
        /\ max_parallel_connections = GuiParallel) =>
        /\ num_parts = 4
        /\ \A p \in 0..2 : task_range[p][2] - task_range[p][1] + 1 = 16777216
        /\ ServedTotal(num_parts) = 67108864

\* init() returns in this step, having read a response.
InitReturns == lock = Some("init") /\ lock' = None /\ IsSome(probe_response')

\* The header value v holds the token t: v is a comma separated list of tokens.
HasToken(v, t) == \E i \in 1..Len(Split(v, ",")) : Trim(Split(v, ",")[i]) = t

C25_FileNameResolution ==
    [][InitReturns =>
          LET h == Unwrap(probe_response')
              u == Unwrap(url)
          IN  /\ (IsSome(h.disposition) /\ Unwrap(h.disposition).filename = None) =>
                    ~Unwrap(init_result').ok
              /\ Unwrap(init_result').ok =>
                    Unwrap(get_headers_info').file_name =
                        IF IsSome(h.disposition) THEN Unwrap(h.disposition).filename
                        ELSE IF IsSome(u.path_segments) THEN Some(Last(Unwrap(u.path_segments)))
                        ELSE Some(DefaultFileName)]_vars

\* The strings of UrlInputs that are no absolute URL.
InvalidUrls == {UrlRelative, UrlEmpty}

\* C26: set_url() with a string that is no absolute URL returns an error and
\* changes nothing else: the stored URL and every other field stay, the mutex
\* is not taken, no request is sent and no file is touched.
C26_InvalidTarget ==
    [][\A s \in InvalidUrls :
          set_url_with(s) =>
              /\ ~Unwrap(set_url_result').ok
              /\ UNCHANGED <<cfgVars, progress_vec, download_status, lock, init_result,
                             probe_response, envVars, dlVars, taskVars, fsVars, histVars>>]_vars

\* C26 witness: set_url() has failed on a configured and probed job, whose
\* URL and header info are still there.
C26_Witness ==
    /\ IsSome(set_url_result) /\ ~Unwrap(set_url_result).ok
    /\ IsSome(url) /\ IsSome(out_dir) /\ IsSome(get_headers_info)
    /\ lock = None

\* C27: a fetcher in its pause loop appends nothing and counts nothing, and
\* leaves the loop only on reading Downloading; and while the status is
\* Paused, a part's counter grows only by the chunk of a fetcher already past
\* its status check, and no fetcher passes its check: so a part grows by one
\* chunk at most between a pause() and the next resume().
C27_CooperativePause ==
    [][\A p \in DOMAIN task_pc :
          /\ task_pc[p] = "paused" =>
                /\ task_buffer'[p] = task_buffer[p]
                /\ progress_vec'[p] = progress_vec[p]
                /\ task_chunk'[p] = task_chunk[p]
                /\ task_pc'[p] # "paused" =>
                      download_status = "Downloading" /\ task_pc'[p] = "append"
          /\ download_status = "Paused" =>
                /\ progress_vec'[p] # progress_vec[p] =>
                      /\ task_pc[p] = "append" /\ task_pc'[p] = "stream"
                      /\ progress_vec'[p] = progress_vec[p] + Len(task_chunk[p])
                /\ task_pc'[p] = "append" => task_pc[p] = "append"]_vars

\* C27 witness: the status is Paused, one fetcher waits in the pause loop with
\* its chunk in hand, and another, past its check when pause() came, has
\* counted its chunk.
C27_Witness ==
    /\ download_status = "Paused"
    /\ dl_pc = "join"
    /\ \E p, q \in DOMAIN task_pc :
          /\ p # q
          /\ task_pc[p] = "paused" /\ task_chunk[p] # <<>>
          /\ progress_vec[p] < Len(delivered[p])
          /\ task_pc[q] = "stream" /\ progress_vec[q] >= 1


\* A fetcher is in its pause loop, and has left it with its chunk in hand.
Suspended(p) == p \in DOMAIN task_pc /\ task_pc[p] = "paused"
Resumed(p) == p \in DOMAIN task_pc /\ task_pc[p] = "append"

\* C28: a fetcher suspended in its pause loop while the status is Downloading
\* (resume() has been called) leaves the loop and goes on with its chunk,
\* unless the status leaves Downloading before its next poll.
C28_ResumeResponse ==
    \A p \in 0..(MaxPar - 1) :
        (Suspended(p) /\ download_status = "Downloading")
            ~> (Resumed(p) \/ download_status # "Downloading")

\* C28 witness: a fetcher that waited in the pause loop has left it and holds
\* the chunk it read before the pause.
C28_Witness ==
    \E p \in waited : Resumed(p) /\ task_chunk[p] # <<>> /\ download_status = "Downloading"

\* C29: download() spawns a fetcher only in its spawn loop, after the progress
\* vector has been set to one zero slot per range and the status to
\* Downloading; it spawns one fetcher per planned range; and a fetcher sends
\* its request once: sending it, answered or failed, ends the task's wait to
\* send, to which no task returns.
C29_StartOrderingFanOut ==
    [][/\ (dl_pc = "set_status" /\ dl_pc' # "set_status") =>
             /\ task_pc = <<>>
             /\ progress_vec = ZeroProgress(num_parts)
             /\ download_status' = "Downloading"
       /\ DOMAIN task_pc' # DOMAIN task_pc =>
             /\ dl_pc = "spawn"
             /\ progress_vec = ZeroProgress(num_parts) \/ task_pc # <<>>
             /\ part \in Parts /\ part \notin DOMAIN task_pc
             /\ DOMAIN task_pc' = DOMAIN task_pc \cup {part}
             /\ task_pc'[part] = "spawned"
       /\ PlanDone' => DOMAIN task_pc' = 0..(num_parts' - 1)
       /\ \A p \in DOMAIN task_pc :
             /\ p \in DOMAIN task_pc'
             /\ task_range'[p] = task_range[p]
             /\ FetcherSend(p) => task_pc'[p] \in {"stream", "done"}
             /\ task_pc[p] # "spawned" => task_pc'[p] # "spawned"]_vars

\* C29 witness: a job of two parts or more has joined its fetchers, one of
\* which failed on its request.
C29_Witness ==
    /\ dl_pc = "write"
    /\ num_parts >= 2
    /\ DOMAIN task_pc = Parts
    /\ \E p \in Parts : ~Unwrap(task_result[p]).ok
    /\ \E p \in Parts : Unwrap(task_result[p]).ok /\ Len(Unwrap(task_result[p]).bytes) >= 1

\* C30: download(), pause(), resume() and the fetchers leave the header info,
\* the URL, the output directory and max_parallel_connections as they are; a
\* step that changes one of them is set_url, set_out_dir or init.
C30_ReadOnlyConfiguration ==
    [][/\ (\/ pause \/ resume
           \/ DownloadBegin \/ DownloadInitProgress \/ DownloadSetDownloading \/ DownloadSpawn
           \/ DownloadJoin \/ DownloadWrite \/ DownloadSetDone
           \/ \E p \in DOMAIN task_pc :
                 \/ FetcherSend(p) \/ FetcherChunk(p) \/ FetcherCheckStatus(p)
                 \/ FetcherPoll(p) \/ FetcherAppend(p)) => UNCHANGED cfgVars
       /\ dl_pc # "idle" => UNCHANGED cfgVars
       /\ url' # url => set_url
       /\ out_dir' # out_dir => set_out_dir
       /\ get_headers_info' # get_headers_info => init
       /\ max_parallel_connections' = max_parallel_connections]_vars

\* C30 witness: a probed job has been paused, resumed and brought to Done.
C30_Witness ==
    /\ download_status = "Done"
    /\ dl_pc = "returned"
    /\ waited # {}
    /\ IsSome(url) /\ IsSome(out_dir) /\ IsSome(get_headers_info)
    /\ file_writes = 1

\* C35: with range support, total_length >= 1 and parallelism >= 1, a total
\* length below the parallelism included, every range download() requests
\* has its start at or before its end.
C35_WellFormedRanges ==
    (PlanDone /\ RangesSupported /\ TotalLength >= 1 /\ max_parallel_connections >= 1) =>
        \A p \in Parts : task_range[p][1] <= task_range[p][2]

\* C36: no step writes the output file while the status is Paused, with
\* Paused left standing, and the status becomes Done only from Downloading.
C36_NoPersistenceWhilePaused ==
    [][/\ (file' # file \/ file_writes' # file_writes) => download_status # "Paused"
       /\ (download_status' = "Done" /\ download_status # "Done") =>
             download_status = "Downloading"]_vars

\* The sum of downloaded_bytes over the slots 0..n-1.
RECURSIVE SumProgress(_)
SumProgress(n) == IF n = 0 THEN 0 ELSE SumProgress(n - 1) + progress_vec[n - 1]

\* C37: once download() has returned Ok with every part Ok, the slots add up
\* to the length of the file written; and from the initialisation of the
\* slots on they never add up to more than the probed content length.
C37_ProgressMatchesOutput ==
    /\ (dl_pc = "returned" /\ num_parts > 0 /\ Unwrap(dl_result).ok
          /\ \A p \in Parts : Unwrap(task_result[p]).ok) =>
           SumProgress(num_parts) = Len(Unwrap(file))
    /\ (ProgressInitialised /\ IsSome(Unwrap(get_headers_info).content_length)) =>
           SumProgress(num_parts) <= TotalLength

\* C37 witness: a job of two parts or more is Done with every part Ok and a
\* file of two bytes or more, as many as the slots count.
C37_Witness ==
    /\ dl_pc = "returned"
    /\ num_parts >= 2
    /\ Unwrap(dl_result).ok
    /\ \A p \in Parts : Unwrap(task_result[p]).ok /\ progress_vec[p] >= 1
    /\ Len(Unwrap(file)) = SumProgress(num_parts)
    /\ IsSome(Unwrap(get_headers_info).content_length)

\* C39: a stored header info has a file name.
C39_FileNamePresent ==
    IsSome(get_headers_info) => IsSome(Unwrap(get_headers_info).file_name)

\* C39 witness: a probe without Content-Disposition, of a URL whose path ends
\* with a slash, has succeeded: the file name is there, and empty.
C39_Witness ==
    /\ IsSome(get_headers_info)
    /\ IsSome(probe_response)
    /\ Unwrap(probe_response).content_disposition = None
    /\ Unwrap(get_headers_info).file_name = Some(<<>>)

\* C31: CancelDownloadButtonPressed removes the row and nothing else: the
\* job, its download(), its fetchers and the commands in flight are left as
\* they are, so a download in flight goes on to Done and writes the file.
C31_CancelDoesNotAbort ==
    [][CancelDownloadButtonPressed =>
          /\ downloads' = None
          /\ UNCHANGED <<cfgVars, apiVars, dlVars, taskVars, fsVars, progress_vec,
                         download_status>>
          /\ UNCHANGED <<start_cmds, polls, commands, messages>>]_vars

\* C31 witness: the row was removed while download() was in flight, and
\* download() has since written the file and set Done.
C31_Witness ==
    /\ downloads = None
    /\ cancelled_in_flight
    /\ dl_pc = "returned"
    /\ download_status = "Done"
    /\ IsSome(file) /\ Len(Unwrap(file)) = res_len

\* C32: at most one download() is started per engine: no second
\* start_download() command is performed for a row's engine.
C32_SingleDownloadInFlight == start_cmds <= 1

\* C33: whenever the row exists and the engine's status is Downloading, an
\* update_download() command is in flight or its callback is queued.
C33_PollPending ==
    (IsSome(downloads) /\ download_status = "Downloading") => polls # <<>>

\* C34: a started download() whose parts have all ended returns, and the
\* status has then become Done or Error: when it has returned, the status is
\* Done or Error unless Done was reached before (the call returned Ok).
C34_Termination ==
    (dl_pc = "returned" /\ num_parts > 0) =>
        \/ download_status \in {"Done", "Error"}
        \/ Unwrap(dl_result).ok

\* C38: an UpdateDownloadCallback, PauseDownloadCallback or
\* ResumeDownloadCallback handled when the row is no longer in the map
\* leaves the map, the counter, the commands in flight and the job as they
\* are; it only consumes the callback, and performs no update_download().
C38_RemovedRowCallbacks ==
    [][(/\ downloads = None
        /\ \/ \E i \in DOMAIN polls : RowUpdateDownloadCallback(i)
           \/ PauseDownloadCallback
           \/ ResumeDownloadCallback) =>
          /\ UNCHANGED <<downloads, downloads_counter, start_cmds, commands>>
          /\ UNCHANGED <<cfgVars, apiVars, dlVars, taskVars, fsVars, progress_vec,
                         download_status>>
          /\ \/ polls' = polls
             \/ \E i \in DOMAIN polls : polls' = RemoveAt(polls, i)]_vars

\* C38 witness: the row has been removed while an update_download() that
\* read Downloading has returned and the callback of a pause_download() is
\* queued.
C38_Witness ==
    /\ downloads = None
    /\ downloads_counter = 1
    /\ messages.pause = 1
    /\ \E i \in DOMAIN polls : polls[i].pc = "returned" /\ polls[i].status = "Downloading"

====
